---- MODULE Spec2Model ----
(***************************************************************************)
(* The SMART-on-FHIR launch and authorization state machine of             *)
(* src/src/lib/smart.ts, run in one browser tab through the BrowserAdapter *)
(* (src/src/lib/adapters/BrowserAdapter.ts).                               *)
(*                                                                         *)
(* Every await of the source is a suspension point: an operation is a      *)
(* sequence of steps, one per stretch of code between two awaits.  A       *)
(* storage call takes effect when it is made (the session storage behind   *)
(* the adapter is synchronous) and the operation resumes in a later step.  *)
(* Between two steps the page may be reloaded or navigated away, which     *)
(* ends every operation and keeps the storage.                             *)
(***************************************************************************)
EXTENDS Integers, Sequences, FiniteSets, TLC

\* Number of state keys randomString(16) hands out in a run of the model;
\* a key is never handed out twice (a collision has probability 62^-16).
MaxKeys == 2

\* getSecurityExtensions races exactly two tasks: the well-known document
\* and the capability statement.
NTasks == 2

Keys == 1..MaxKeys
\* No key: a missing "state" parameter, an unset SMART_KEY.
NoKey == 0
\* A query parameter that is missing or empty (URLSearchParams.get gives
\* null or "", both falsy), a field that is null.
None == "none"
Undef == "undef"

Truthy(s) == s \notin {None, Undef, ""}

\* The invocations a page can have in flight.
Procs == {1, 2}

-----------------------------------------------------------------------------
\* URLs.  Only the query parameters the core reads are kept; "site" tells the
\* application's own pages from the authorization server's page.

Url(site, code, state, error, desc, complete) ==
    [site |-> site, code |-> code, state |-> state, error |-> error,
     error_description |-> desc, complete |-> complete]

NoUrl == Url("none", None, NoKey, None, None, None)

\* The pages of the application a user can open by hand: with or without a
\* code and a state, with the guard parameter a handed-over completion
\* carries, and with error parameters.
AppUrls ==
    {Url("app", c, k, None, None, None) :
        c \in {None, "xyz"}, k \in {NoKey} \cup Keys}
    \cup {Url("app", "xyz", k, None, None, "1") : k \in Keys}
    \cup ({Url("app", c, NoKey, e, d, None) :
             c \in {None, "xyz"},
             e \in {None, "access_denied"}, d \in {None, "User declined"}}
          \ {Url("app", c, NoKey, None, None, None) : c \in {None, "xyz"}})

\* Where the authorization server sends the user agent back to, for the
\* launch with state key k: redirectUri with the code, or with an error.
ServerRedirects(k) ==
    {Url("app", "xyz", k, None, None, None),
     Url("app", None, k, "access_denied", None, None),
     Url("app", None, k, None, "User declined", None),
     Url("app", None, k, "access_denied", "User declined", None)}

\* redirectUri + "?state=" + stateKey
RedirectUrl(k) == Url("app", None, k, None, None, None)

\* authorizeUri + "?" + redirectParams.join("&"), which carries state=stateKey
AuthorizeUrl(k) == Url("auth", None, k, None, None, None)

-----------------------------------------------------------------------------
\* LaunchState (fhirclient.SMARTState).  present = FALSE is the value
\* storage.get gives for a key that holds nothing.

\* tokenResponse: {} (line 292); of its entries the model keeps access_token
\* and patient
NoTokenResponse == [access_token |-> None, patient |-> None]

NullState ==
    [present |-> FALSE, clientId |-> None, clientSecret |-> Undef,
     redirectUri |-> None, authorizeUri |-> Undef, tokenUri |-> Undef, multiple |-> FALSE,
     completeInTarget |-> Undef, tokenResponse |-> NoTokenResponse,
     expiresAt |-> Undef]

HasAccessToken(st) == st.present /\ Truthy(st.tokenResponse.access_token)

\* What the token endpoint can answer: a token response, or one that lacks
\* access_token.
TokenResponses ==
    {[access_token |-> "tok123", patient |-> None],
     [access_token |-> None, patient |-> None]}

\* getAccessTokenExpiration(tokenResponse): a timestamp computed from the
\* response.
getAccessTokenExpiration(resp) == "exp"

-----------------------------------------------------------------------------
\* The servers authorize is pointed at: what each discovery source answers.
\*   wk: the well-known document ("ok": both endpoints; "fail": not served,
\*       or without authorization_endpoint / token_endpoint)
\*   cs: the capability statement ("full": authorize and token extensions,
\*       "authOnly": no token extension, "empty": no oauth-uris extension,
\*       "fail": not served)
Servers ==
    [smart    |-> [wk |-> "ok",   cs |-> "full"],
     mixed    |-> [wk |-> "ok",   cs |-> "empty"],
     open     |-> [wk |-> "fail", cs |-> "empty"],
     authOnly |-> [wk |-> "fail", cs |-> "authOnly"]]

Extensions(authorizeUri, tokenUri) ==
    [authorizeUri |-> authorizeUri, tokenUri |-> tokenUri]

getSecurityExtensionsFromWellKnownJson(server) ==
    IF Servers[server].wk = "ok"
    THEN {Extensions("https://ehr/auth", "https://ehr/token")}
    ELSE {}

getSecurityExtensionsFromConformanceStatement(server) ==
    CASE Servers[server].cs = "full" ->
            {Extensions("https://ehr/auth", "https://ehr/token")}
      [] Servers[server].cs = "authOnly" ->
            {Extensions("https://ehr/auth", "")}
      [] Servers[server].cs = "empty" -> {Extensions("", "")}
      [] OTHER -> {}

\* The tasks of the discovery race, in the order of the list, and what each
\* one fails with.
Tasks == 1..NTasks

TaskError(t) ==
    IF t = 1 THEN "Invalid wellKnownJson"
    ELSE "Failed to fetch the conformance statement"

\* getSecurityExtensions: the race resolves with the result of whichever
\* source succeeds first, and rejects when both fail.
getSecurityExtensions(server) ==
    getSecurityExtensionsFromWellKnownJson(server)
        \cup getSecurityExtensionsFromConformanceStatement(server)

-----------------------------------------------------------------------------
\* The parameters of authorize (fhirclient.AuthorizeParams), as far as the
\* single-window flow reads them.
\*   mode: "iss" (iss given, in the URL or inline), "fhirServiceUrl"
\*         (fhirServiceUrl without iss), "none" (neither)
Params(mode, server, multiple, clientId, completeInTarget, noRedirect) ==
    [mode |-> mode, server |-> server, multiple |-> multiple,
     clientId |-> clientId, clientSecret |-> Undef,
     completeInTarget |-> completeInTarget, noRedirect |-> noRedirect,
     fakeTokenResponse |-> NoTokenResponse, patientId |-> Undef,
     target |-> None]

\* The same parameters with a fixed patient id, and with a fake token
\* response that names a patient.
WithPatientId(params, id) == [params EXCEPT !.patientId = id]

WithFakeTokenResponse(params, fake) == [params EXCEPT !.fakeTokenResponse = fake]

\* The same parameters with a target window: "popup" or "frame".
WithTarget(params, target) == [params EXCEPT !.target = target]

NoParams == Params("none", "open", FALSE, None, Undef, FALSE)

\* The applications: the parameters an application passes to authorize and
\* to init, the same at every launch, and the window it runs in.
Fixture(w, params) == [win |-> w, params |-> params]

Fixtures ==
    {Fixture("top", Params("iss", "smart", m, "my_client", Undef, FALSE)) :
        m \in BOOLEAN}
    \cup {Fixture("top", Params("fhirServiceUrl", "open", m, "my_client", Undef, FALSE)) :
            m \in BOOLEAN}
    \cup {Fixture("top", Params("iss", s, FALSE, "my_client", Undef, FALSE)) :
            s \in {"open", "authOnly", "mixed"}}
    \cup {Fixture("top", Params("iss", "smart", FALSE, None, Undef, FALSE)),
          Fixture("top", Params("iss", "smart", FALSE, "my_client", Undef, TRUE)),
          Fixture("top", WithPatientId(
              WithFakeTokenResponse(
                  Params("iss", "smart", FALSE, "my_client", Undef, FALSE),
                  [access_token |-> None, patient |-> "pt0"]),
              "pt1")),
          Fixture("top", Params("iss", "open", FALSE, "my_client", Undef, TRUE)),
          Fixture("top", Params("fhirServiceUrl", "open", FALSE, "my_client", Undef, TRUE)),
          Fixture("top", Params("none", "open", FALSE, "my_client", Undef, FALSE)),
          Fixture("frame", Params("iss", "smart", FALSE, "my_client", Undef, FALSE)),
          Fixture("frame", Params("iss", "smart", FALSE, "my_client", "false", FALSE)),
          Fixture("popup", Params("iss", "smart", FALSE, "my_client", Undef, FALSE)),
          Fixture("popup", Params("iss", "smart", FALSE, "my_client", "true", FALSE))}

-----------------------------------------------------------------------------
\* Results of an operation.
Result(kind, key, state, msg, url) ==
    [kind |-> kind, key |-> key, state |-> state, msg |-> msg, url |-> url]

NoResult == Result("none", NoKey, NullState, <<>>, NoUrl)
\* new Client(stored, {save}): the session exposes the persisted state
Client(key, stored) == Result("session", key, stored, <<>>, NoUrl)
\* A rejection; the message is the list of the strings it is made of.
Failure(msg) == Result("error", NoKey, NullState, msg, NoUrl)
Returned(url) == Result("url", NoKey, NullState, <<>>, url)
Void == Result("void", NoKey, NullState, <<>>, NoUrl)

\* One invocation of authorize, completeAuth, ready or init.
\*   fn     the operation the application called
\*   pc     the await it is suspended at, or how it ended
\*   params the parameters of authorize
\*   key    stateKey (authorize), key (completeAuth, getClient)
\*   code   the code parameter read at the start
\*   state  the local LaunchState (authorize: state, completeAuth: state)
\*   stored the last value read from the storage
\*   tokenResponse  what the token endpoint answered
\*   body   the flow the invocation is in: "authorize", "completeAuth",
\*          "ready" (its own revival), "init" (its own revival)
Idle ==
    [fn |-> "none", pc |-> "idle", params |-> NoParams, key |-> NoKey,
     code |-> None, state |-> NullState, stored |-> NullState,
     tokenResponse |-> NoTokenResponse, result |-> NoResult,
     body |-> "none"]

Ended == {"idle", "resolved", "rejected", "pending"}

\* A window of the user agent beside the one the model is in: its kind, its
\* page and the operations of that page, its session storage, and whether
\* onMessage is installed on its page.
Window(w, loc, url, ops, st, sk, l) ==
    [win |-> w, location |-> loc, adapterUrl |-> url, run |-> ops,
     store |-> st, smartKey |-> sk, listener |-> l]

NoWindow ==
    Window("none", NoUrl, NoUrl, [p \in Procs |-> Idle],
           [k \in Keys |-> NullState], NoKey, FALSE)

VARIABLES
    store,       \* storage: the LaunchState under each state key
    smartKey,    \* storage: the value under SMART_KEY
    location,    \* the URL of the page (window.location)
    adapterUrl,  \* BrowserAdapter._url: the URL object getUrl() returns
    run,         \* the operations of the page
    app,         \* the parameters the application passes to authorize
    win,         \* "top", "frame" or "popup"; "closed" after window.close()
    posted,      \* the URLs posted to the parent or opener
    issued,      \* how many state keys randomString has handed out
    \* the discovery race, any(tasks)
    task,        \* each task's promise: "pending", or how it settled
    complete,    \* t.complete
    errors,      \* errors: the messages, in the order pushed
    resolved,    \* resolved
    promise,     \* the promise any() returned
    aborted,     \* the controllers abort() was called on
    abortThrows, \* the controllers whose abort() throws
    escaped,     \* an exception left onSuccess
    \* a call of buildTokenRequest on its own
    givenCode,   \* the code it is given
    givenState,  \* the state it is given
    built,       \* the request options it returns
    \* the end of ready: the callbacks chained onto its task
    settled,     \* how the task of ready settles: a session or an error
    handlers,    \* onSuccess and onError as the application passes them
    returned,    \* how the promise ready returns settles
    \* the windows
    listener,    \* onMessage is installed on the page of this window
    other        \* the other window: the target, or from it the opener

flowVars ==
    <<store, smartKey, location, adapterUrl, run, app, win, posted, issued>>
raceVars ==
    <<task, complete, errors, resolved, promise, aborted, abortThrows, escaped>>
callVars == <<givenCode, givenState, built, settled, handlers, returned>>
peerVars == <<listener, other>>
vars == <<flowVars, raceVars, callVars, peerVars>>

-----------------------------------------------------------------------------
\* The storage (env.getStorage()): get of a key that holds nothing, and of
\* no key at all, gives no state.
StorageGet(k) == IF k \in Keys THEN store[k] ELSE NullState

isInFrame == win = "frame"
isInPopUp == win = "popup"

Rejected(r, msg) == [r EXCEPT !.pc = "rejected", !.result = Failure(msg)]

CanStart(p) ==
    /\ run[p].pc \in Ended
    /\ win # "closed"
    /\ location.site = "app"

-----------------------------------------------------------------------------
\* authorize

\* lines 255-277: inside a frame or a popup an unset completeInTarget
\* becomes inFrame
CompleteInTarget(given) ==
    IF (isInFrame \/ isInPopUp) /\ given \notin {"true", "false"}
    THEN (IF isInFrame THEN "true" ELSE "false")
    ELSE given

\* Object.assign(target, source): the entries of source replace those of
\* target
Assign(target, source) ==
    [f \in DOMAIN target |-> IF source[f] # None THEN source[f] ELSE target[f]]

\* lines 302-315: fakeTokenResponse and patientId are merged into
\* state.tokenResponse
FixedEntries(params) ==
    LET faked == Assign(NoTokenResponse, params.fakeTokenResponse)
    IN  IF Truthy(params.patientId)
        THEN Assign(faked, [access_token |-> None, patient |-> params.patientId])
        ELSE faked

\* lines 286-315: the initial state
InitialState(params) ==
    [present |-> TRUE, clientId |-> params.clientId,
     clientSecret |-> params.clientSecret, redirectUri |-> "https://app/", authorizeUri |-> Undef,
     tokenUri |-> Undef, multiple |-> params.multiple,
     completeInTarget |-> CompleteInTarget(params.completeInTarget),
     tokenResponse |-> FixedEntries(params), expiresAt |-> Undef]

\* A launch that aliases the singular key whatever multiple says.
AlwaysAliases(params) == TRUE

\* line 298: the singular key is aliased unless the launch is multiple
AliasesSmartKey(params) == ~params.multiple

\* line 320: fhirServiceUrl && !iss
Bypass(params) == params.mode = "fhirServiceUrl"

\* A launch that writes its state before it asks for discovery.
WritesStateAtOnce(params) == TRUE

\* A launch that leaves the write to discovery on every path.
NeverWritesAtOnce(params) == FALSE

\* lines 320-330: what happens to the state before discovery is asked for:
\* it is written at once only on the bypass, which asks for no discovery
WritesStateBeforeDiscovery(params) == Bypass(params)

\* lines 302-330, from the fake token response to the first await after it
authorizeLaunch(p, r) ==
    /\ store' = IF WritesStateBeforeDiscovery(r.params)
                THEN [store EXCEPT ![r.key] = r.state]
                ELSE store
    /\ run' = [run EXCEPT ![p] =
                 [r EXCEPT !.pc = IF Bypass(r.params) THEN "az_stored"
                                  ELSE "az_discovery"]]

\* lines 176-300: authorize up to its first await
authorizeEnter(p, fn, params) ==
    LET r0 == [Idle EXCEPT !.fn = fn, !.body = "authorize",
                           !.params = params]
    IN  IF params.mode = "none"
        THEN /\ run' = [run EXCEPT ![p] = Rejected(r0, <<"No server url found">>)]
             /\ UNCHANGED <<store, smartKey, issued>>
        ELSE /\ issued < MaxKeys
             /\ issued' = issued + 1
             /\ LET r == [r0 EXCEPT !.key = issued + 1,
                                    !.state = InitialState(params)]
                IN  IF AliasesSmartKey(params)
                    THEN /\ smartKey' = r.key
                         /\ run' = [run EXCEPT ![p] = [r EXCEPT !.pc = "az_alias"]]
                         /\ UNCHANGED store
                    ELSE /\ UNCHANGED smartKey
                         /\ authorizeLaunch(p, r)

authorize(p) ==
    /\ CanStart(p)
    /\ authorizeEnter(p, "authorize", app)
    /\ UNCHANGED <<location, adapterUrl, app, win, posted, raceVars, callVars, peerVars>>

\* line 299 resumed: await storage.set(SMART_KEY, stateKey)
authorizeAliased(p) ==
    /\ run[p].pc = "az_alias"
    /\ authorizeLaunch(p, run[p])
    /\ UNCHANGED <<smartKey, location, adapterUrl, app, win, posted, issued, raceVars, callVars, peerVars>>

\* lines 330-332: discovery answered
authorizeDiscovered(p) ==
    /\ run[p].pc = "az_discovery"
    /\ \E extensions \in getSecurityExtensions(run[p].params.server) :
         LET state == [run[p].state EXCEPT
                          !.authorizeUri = extensions.authorizeUri,
                          !.tokenUri = extensions.tokenUri]
         IN  /\ store' = [store EXCEPT ![run[p].key] = state]
             /\ run' = [run EXCEPT ![p].state = state, ![p].pc = "az_stored"]
    /\ UNCHANGED <<smartKey, location, adapterUrl, app, win, posted, issued, raceVars, callVars, peerVars>>

\* line 330: every discovery source failed (the server is down, the
\* network fails)
authorizeDiscoveryFailed(p) ==
    /\ run[p].pc = "az_discovery"
    /\ \E t \in Tasks :
         run' = [run EXCEPT ![p] =
                   Rejected(run[p], <<TaskError(t), TaskError(NTasks + 1 - t)>>)]
    /\ UNCHANGED <<store, smartKey, location, adapterUrl, app, win, posted, issued, raceVars, callVars, peerVars>>

\* An authorize that builds the authorization URL on every path.
AlwaysAuthorizeUrl(r) == AuthorizeUrl(r.key)

\* lines 317-357: the URL authorize ends with
redirectUrl(r) ==
    IF Bypass(r.params) \/ ~Truthy(r.state.authorizeUri)
    THEN RedirectUrl(r.key)
    ELSE AuthorizeUrl(r.key)

\* An authorize that navigates whatever noRedirect says.
NavigatesAlways(params) == TRUE

\* lines 323, 336, 359: with noRedirect the URL is returned, not navigated to
Navigates(params) == ~params.noRedirect

\* An init that hands on what authorize returned.
NeverPending(fn) == FALSE

\* lines 745-754: init answers a finished authorize with a promise that
\* stays pending
LeavesPending(fn) == fn = "init"

\* lines 359-363: the target is looked at only on the way to the
\* authorization URL, and not with noRedirect
TargetsWindow(r) ==
    /\ Navigates(r.params)
    /\ r.params.target # None
    /\ ~Bypass(r.params)
    /\ Truthy(r.state.authorizeUri)

\* lines 322-396 resumed after storage.set(stateKey, state): return the URL
\* or navigate to it.
authorizeRedirect(p) ==
    /\ run[p].pc = "az_stored"
    /\ ~TargetsWindow(run[p])
    /\ LET r == run[p]
           to == redirectUrl(r)
       IN  /\ location' = IF Navigates(r.params) THEN to ELSE location
           /\ run' = [run EXCEPT ![p] =
                 IF LeavesPending(r.fn)
                 THEN [r EXCEPT !.pc = "pending"]
                 ELSE [r EXCEPT !.pc = "resolved",
                                !.result = IF Navigates(r.params)
                                           THEN Void ELSE Returned(to)]]
    /\ UNCHANGED <<store, smartKey, adapterUrl, app, win, posted, issued, raceVars, callVars, peerVars>>

\* getTargetWindow(target, width, height): the window of that kind, or self
\* when it cannot be had (the popup is blocked, the frame is not found).
\* The model has two windows: a target is opened from the top window only.
getTargetWindow(target) ==
    IF win = "top" THEN {target, "self"} ELSE {"self"}

\* The page of a window that has loaded nothing yet.
BlankUrl == Url("blank", None, NoKey, None, None, None)

\* The window getTargetWindow returned: the one of that kind if it is
\* there, else a new one.  A popup starts with a copy of its opener's
\* session storage; a frame shares the storage of its parent.
TargetWindow(w) ==
    IF other.win = w
    THEN other
    ELSE Window(w, BlankUrl, BlankUrl, [q \in Procs |-> Idle],
                store, smartKey, FALSE)

\* A transfer that leaves the storage of the target as it is.
setItemSkipped(target, key, state) == target

\* line 373: win.sessionStorage.setItem(stateKey, JSON.stringify(state))
setItem(target, key, state) == [target EXCEPT !.store[key] = state]

\* lines 363-393 resumed after storage.set(stateKey, state), with a target:
\* the state is written into the storage of the target window, the target
\* is sent to the authorization URL and onMessage is installed; when the
\* target is this window, or its storage or its location cannot be written,
\* this window goes to the authorization URL.
authorizeTarget(p) ==
    /\ run[p].pc = "az_stored"
    /\ TargetsWindow(run[p])
    /\ LET r == run[p]
           to == redirectUrl(r)
       IN  /\ \E w \in getTargetWindow(r.params.target) :
                \E writes \in BOOLEAN : \E navigates \in BOOLEAN :
                  IF w = "self" \/ ~writes
                  THEN /\ location' = to
                       /\ UNCHANGED <<store, listener, other>>
                  ELSE LET target == TargetWindow(w)
                           written == setItem(target, r.key, r.state)
                       IN  /\ store' = IF w = "frame"
                                       THEN [store EXCEPT ![r.key] = r.state]
                                       ELSE store
                           /\ IF navigates
                              THEN /\ other' =
                                        [written EXCEPT
                                            !.location = to,
                                            !.adapterUrl = to,
                                            !.run = [q \in Procs |-> Idle],
                                            !.listener = FALSE]
                                   /\ listener' = TRUE
                                   /\ UNCHANGED location
                              ELSE /\ other' = written
                                   /\ location' = to
                                   /\ UNCHANGED listener
           /\ run' = [run EXCEPT ![p] =
                 IF LeavesPending(r.fn)
                 THEN [r EXCEPT !.pc = "pending"]
                 ELSE [r EXCEPT !.pc = "resolved", !.result = Void]]
    /\ UNCHANGED <<smartKey, adapterUrl, app, win, posted, issued, raceVars, callVars>>

-----------------------------------------------------------------------------
\* completeAuth

\* A check that looks at the error parameter alone.
HasErrorOnly(url) == Truthy(url.error)

\* line 530: the URL carries error or error_description
HasAuthError(url) == Truthy(url.error) \/ Truthy(url.error_description)

\* line 530: [authError, authErrorDescription].filter(Boolean).join(": ")
AuthErrorMessage(url) ==
    SelectSeq(<<url.error, url.error_description>>, Truthy)

\* A check that takes every code for a fresh one.
AuthorizedWithoutCode(code, state) == ~Truthy(code)

\* line 575: authorized = !code || state.tokenResponse?.access_token
Authorized(code, state) == ~Truthy(code) \/ HasAccessToken(state)

\* A check that asks for the exchange whether or not there is a tokenUri.
NeedsExchangeAnyway(code, state) == ~Authorized(code, state)

\* line 579: the code is exchanged when !authorized && state.tokenUri
NeedsExchange(code, state) ==
    ~Authorized(code, state) /\ Truthy(state.tokenUri)

\* A hand-over that knows frames and forgets popups.
HandsOverInFrameOnly(state, url) ==
    /\ state.present
    /\ state.completeInTarget # "true"
    /\ win = "frame"
    /\ ~Truthy(url.complete)

\* A hand-over that does not look at the guard parameter.
HandsOverDespiteGuard(state, url) ==
    /\ state.present
    /\ state.completeInTarget # "true"
    /\ win \in {"frame", "popup"}

\* lines 542-553: hand the completion over to the parent or the opener
HandsOver(state, url) ==
    /\ state.present
    /\ state.completeInTarget # "true"
    /\ isInFrame \/ isInPopUp
    /\ ~Truthy(url.complete)

\* A merge that keeps the expiry and loses the response.
WithExpiryOnly(state, tokenResponse) ==
    [state EXCEPT !.expiresAt = getAccessTokenExpiration(tokenResponse)]

\* A merge that stores nothing in place of the state.
WithStateLost(state, tokenResponse) == NullState

\* A merge that stores the state as it was read.
WithStaleState(state, tokenResponse) == state

\* The merge of line 590 if it kept the entries that authorize had put into
\* state.tokenResponse.
WithMergedResponse(state, tokenResponse) ==
    [state EXCEPT !.expiresAt = getAccessTokenExpiration(tokenResponse),
                  !.tokenResponse = [f \in DOMAIN tokenResponse |->
                        IF tokenResponse[f] # None THEN tokenResponse[f]
                        ELSE state.tokenResponse[f]]]

\* line 590: state = { ...state, tokenResponse }, after line 586
WithTokenResponse(state, tokenResponse) ==
    [state EXCEPT !.expiresAt = getAccessTokenExpiration(tokenResponse),
                  !.tokenResponse = tokenResponse]

\* lines 513-538: completeAuth up to its first await, the storage read
completeAuthEnter(p, fn) ==
    LET url == adapterUrl
        r0 == [Idle EXCEPT !.fn = fn, !.body = "completeAuth",
                           !.code = url.code, !.key = url.state]
    IN  run' = [run EXCEPT ![p] =
            IF HasAuthError(url)
            THEN Rejected(r0, AuthErrorMessage(url))
            ELSE IF url.state = NoKey
            THEN Rejected(r0, <<"No 'state' parameter found">>)
            ELSE [r0 EXCEPT !.pc = "ca_get", !.state = StorageGet(url.state)]]

completeAuth(p) ==
    /\ CanStart(p)
    /\ completeAuthEnter(p, "completeAuth")
    /\ UNCHANGED <<store, smartKey, location, adapterUrl, app, win, posted, issued,
                   raceVars, callVars, peerVars>>

\* A cleanup that leaves the singular key alone.
NeverReAliases(stored) == FALSE

\* A cleanup that sets the singular key whatever stored.multiple says.
AlwaysReAliases(stored) == TRUE

\* line 463: the singular key is set to the state key unless stored.multiple
ReAliasesSmartKey(stored) == ~stored.multiple

\* cleanUpUrl, lines 444-462: drop the code, read the state under the state
\* parameter.  u is the URL object as the caller left it.
cleanUpUrlEnter(p, r, u) ==
    LET url == [u EXCEPT !.code = None]
    IN  /\ adapterUrl' = url
        /\ IF url.state # NoKey
           THEN /\ run' = [run EXCEPT ![p] =
                             [r EXCEPT !.pc = "cu_get",
                                       !.stored = StorageGet(url.state)]]
                /\ UNCHANGED location
           ELSE /\ run' = [run EXCEPT ![p] =
                             [r EXCEPT !.pc = "gc_get",
                                       !.stored = StorageGet(r.key)]]
                /\ location' = url

\* lines 540-583 resumed after Storage.get(key)
completeAuthLoaded(p) ==
    /\ run[p].pc = "ca_get"
    /\ LET r == run[p]
           url == [adapterUrl EXCEPT !.complete = None]
       IN  IF HandsOver(r.state, adapterUrl)
           THEN /\ adapterUrl' = [adapterUrl EXCEPT !.complete = "1"]
                /\ posted' = posted \cup {adapterUrl'}
                /\ win' = IF isInPopUp THEN "closed" ELSE win
                /\ run' = [run EXCEPT ![p].pc = "pending"]
                /\ UNCHANGED location
           ELSE IF ~r.state.present
           THEN /\ adapterUrl' = url
                /\ run' = [run EXCEPT ![p] =
                             Rejected(r, <<"No state found! Please (re)launch the app.">>)]
                /\ UNCHANGED <<location, win, posted>>
           ELSE IF NeedsExchange(r.code, r.state)
           THEN \* getAccessToken, lines 485-490
                /\ adapterUrl' = url
                /\ run' = [run EXCEPT ![p].pc = "ca_tokget",
                                      ![p].stored = StorageGet(r.key)]
                /\ UNCHANGED <<location, win, posted>>
           ELSE /\ cleanUpUrlEnter(p, r, url)
                /\ UNCHANGED <<win, posted>>
    /\ UNCHANGED <<store, smartKey, app, issued, raceVars, callVars, peerVars>>

\* Strings as buildTokenRequest handles them.  A string is a sequence of
\* pieces: a run of unreserved characters, or one reserved character.
\* Chars(s) is the sequence of a string of the model; a string that has no
\* reserved character is one piece.
Chars(s) ==
    CASE s = "abc&client_id=evil" -> <<"abc", "&", "client_id", "=", "evil">>
      [] s = "abc=" -> <<"abc", "=">>
      [] s = "my&client" -> <<"my", "&", "client">>
      [] s = "p:w" -> <<"p", ":", "w">>
      [] s = "https://app/" -> <<"https", ":", "/", "/", "app", "/">>
      [] s = "https://app/?a=1&b=2" ->
            <<"https", ":", "/", "/", "app", "/", "?", "a", "=", "1", "&", "b", "=", "2">>
      [] OTHER -> <<s>>

\* encodeURIComponent of one piece: a reserved character is escaped
Escaped(c) ==
    CASE c = "&" -> "%26"
      [] c = "=" -> "%3D"
      [] c = ":" -> "%3A"
      [] c = "/" -> "%2F"
      [] c = "?" -> "%3F"
      [] OTHER -> c

\* lines 618-619, 636: encodeURIComponent(s)
encodeURIComponent(s) == [i \in DOMAIN Chars(s) |-> Escaped(Chars(s)[i])]

\* btoa(text): the base64 encoding of the text, which atob undoes
btoa(text) == [encoding |-> "base64", text |-> text]

\* line 630: "Basic " + btoa(...)
Basic(credentials) ==
    [present |-> TRUE, scheme |-> "Basic", credentials |-> credentials]

\* line 617: headers without authorization
NoHeader ==
    [present |-> FALSE, scheme |-> "", credentials |-> [encoding |-> "", text |-> <<>>]]

\* lines 611-613: an assertion of buildTokenRequest failed
Thrown(msg) ==
    [ok |-> FALSE, msg |-> msg, method |-> "", contentType |-> "",
     authorization |-> NoHeader, body |-> <<>>]

\* lines 607-640: buildTokenRequest; ok says whether it returned
buildTokenRequest(code, state) ==
    IF ~state.present THEN Thrown(<<"TypeError">>)
    ELSE IF ~Truthy(state.redirectUri)
    THEN Thrown(<<"Missing state.redirectUri">>)
    ELSE IF ~Truthy(state.tokenUri)
    THEN Thrown(<<"Missing state.tokenUri">>)
    ELSE IF ~Truthy(state.clientId)
    THEN Thrown(<<"Missing state.clientId">>)
    ELSE LET body == <<"code", "=">> \o Chars(code)
                     \o <<"&", "grant_type", "=", "authorization_code">>
                     \o <<"&", "redirect_uri", "=">>
                     \o encodeURIComponent(state.redirectUri)
         IN  IF Truthy(state.clientSecret)
             THEN [ok |-> TRUE, msg |-> <<>>, method |-> "POST",
                   contentType |-> "application/x-www-form-urlencoded",
                   authorization |->
                       Basic(btoa(Chars(state.clientId) \o <<":">>
                                  \o Chars(state.clientSecret))),
                   body |-> body]
             ELSE [ok |-> TRUE, msg |-> <<>>, method |-> "POST",
                   contentType |-> "application/x-www-form-urlencoded",
                   authorization |-> NoHeader,
                   body |-> body \o <<"&", "client_id", "=">>
                                 \o encodeURIComponent(state.clientId)]

\* getAccessToken, lines 492-500 resumed after storage.get(state): build
\* the request and send it
getAccessToken(p) ==
    /\ run[p].pc = "ca_tokget"
    /\ LET requestOptions == buildTokenRequest(run[p].code, run[p].stored)
       IN  run' = [run EXCEPT ![p] =
                IF requestOptions.ok
                THEN [run[p] EXCEPT !.pc = "ca_request"]
                ELSE Rejected(run[p], requestOptions.msg)]
    /\ UNCHANGED <<store, smartKey, location, adapterUrl, app, win, posted, issued, raceVars, callVars, peerVars>>

\* A check that takes whatever the token endpoint answers.
AcceptsAnyResponse(tokenResponse) == TRUE

\* line 502: assert(tokenResponse.access_token, ...)
AcceptsTokenResponse(tokenResponse) == Truthy(tokenResponse.access_token)

\* lines 500-503 and 583-591: the token endpoint answered
tokenAnswered(p) ==
    /\ run[p].pc = "ca_request"
    /\ \E tokenResponse \in TokenResponses :
         IF AcceptsTokenResponse(tokenResponse)
         THEN LET state == WithTokenResponse(run[p].state, tokenResponse)
              IN  /\ store' = [store EXCEPT ![run[p].key] = state]
                  /\ run' = [run EXCEPT ![p].pc = "ca_save",
                                        ![p].state = state,
                                        ![p].tokenResponse = tokenResponse]
         ELSE /\ run' = [run EXCEPT ![p] =
                           Rejected(run[p], <<"Failed to obtain access token.">>)]
              /\ UNCHANGED store
    /\ UNCHANGED <<smartKey, location, adapterUrl, app, win, posted, issued, raceVars, callVars, peerVars>>

\* line 500: the token request failed (a status that is not 2xx, the network)
tokenFailed(p) ==
    /\ run[p].pc = "ca_request"
    /\ run' = [run EXCEPT ![p] = Rejected(run[p], <<"HttpError">>)]
    /\ UNCHANGED <<store, smartKey, location, adapterUrl, app, win, posted, issued, raceVars, callVars, peerVars>>

\* line 598 resumed after Storage.set(key, state): cleanUpUrl
completeAuthSaved(p) ==
    /\ run[p].pc = "ca_save"
    /\ cleanUpUrlEnter(p, run[p], adapterUrl)
    /\ UNCHANGED <<store, smartKey, app, win, posted, issued, raceVars, callVars, peerVars>>

\* lines 475-480 and 600, 644-645: the location takes the cleaned URL
\* (history.replaceState, or adapter.redirect where there is none), then
\* getClient reads the state
cleanUpUrlFinish(p, r, url) ==
    /\ adapterUrl' = url
    /\ location' = url
    /\ run' = [run EXCEPT ![p] =
                 [r EXCEPT !.pc = "gc_get", !.stored = StorageGet(r.key)]]

\* cleanUpUrl, lines 463-468 resumed after storage.get(state)
cleanUpUrlLoaded(p) ==
    /\ run[p].pc = "cu_get"
    /\ LET r == run[p]
       IN  IF ~r.stored.present
           THEN /\ run' = [run EXCEPT ![p] = Rejected(r, <<"TypeError">>)]
                /\ UNCHANGED <<smartKey, location, adapterUrl>>
           ELSE IF ReAliasesSmartKey(r.stored)
           THEN \* state, read at line 448 from the URL completeAuth read its
                \* key from
                /\ smartKey' = r.key
                /\ run' = [run EXCEPT ![p].pc = "cu_set"]
                /\ UNCHANGED <<location, adapterUrl>>
           ELSE /\ cleanUpUrlFinish(p, r, adapterUrl)
                /\ UNCHANGED smartKey
    /\ UNCHANGED <<store, app, win, posted, issued, raceVars, callVars, peerVars>>

\* cleanUpUrl, lines 465-480 resumed after storage.set(SMART_KEY, state)
cleanUpUrlAliased(p) ==
    /\ run[p].pc = "cu_set"
    /\ cleanUpUrlFinish(p, run[p], [adapterUrl EXCEPT !.state = NoKey])
    /\ UNCHANGED <<store, smartKey, app, win, posted, issued, raceVars, callVars, peerVars>>

\* getClient, lines 646-649 resumed after storage.get(key)
getClient(p) ==
    /\ run[p].pc = "gc_get"
    /\ LET r == run[p]
       IN  IF r.stored.present
           THEN run' = [run EXCEPT ![p].pc = "resolved",
                                   ![p].result = Client(r.key, r.stored)]
           ELSE run' = [run EXCEPT ![p] =
                          Rejected(r, <<"No state found in storage.">>)]
    /\ UNCHANGED <<store, smartKey, location, adapterUrl, app, win, posted, issued,
                   raceVars, callVars, peerVars>>

-----------------------------------------------------------------------------
\* ready and init

\* ready, lines 655-678: completeAuth when the URL carries a code, else the
\* session under the state parameter, else the one under the singular key
ready(p) ==
    /\ CanStart(p)
    /\ LET url == adapterUrl
           r0 == [Idle EXCEPT !.fn = "ready", !.body = "ready",
                              !.code = url.code]
       IN  IF Truthy(url.code)
           THEN completeAuthEnter(p, "ready")
           ELSE IF url.state # NoKey
           THEN run' = [run EXCEPT ![p] =
                          [r0 EXCEPT !.pc = "gc_get", !.key = url.state,
                                     !.stored = StorageGet(url.state)]]
           ELSE run' = [run EXCEPT ![p] =
                          [r0 EXCEPT !.pc = "rd_get", !.key = smartKey]]
    /\ UNCHANGED <<store, smartKey, location, adapterUrl, app, win, posted, issued,
                   raceVars, callVars, peerVars>>

\* ready, line 677 resumed after get(SMART_KEY): getClient(env, key)
readyLoaded(p) ==
    /\ run[p].pc = "rd_get"
    /\ run' = [run EXCEPT ![p].pc = "gc_get",
                          ![p].stored = StorageGet(run[p].key)]
    /\ UNCHANGED <<store, smartKey, location, adapterUrl, app, win, posted, issued, raceVars, callVars, peerVars>>

\* init, lines 723-737: completeAuth when the URL carries code and state,
\* else look for a cached state
init(p) ==
    /\ CanStart(p)
    /\ LET url == adapterUrl
           r0 == [Idle EXCEPT !.fn = "init", !.body = "init",
                              !.params = app, !.code = url.code]
       IN  IF Truthy(url.code) /\ url.state # NoKey
             THEN completeAuthEnter(p, "init")
             ELSE IF url.state # NoKey
             THEN run' = [run EXCEPT ![p] =
                            [r0 EXCEPT !.pc = "in_cached", !.key = url.state,
                                       !.stored = StorageGet(url.state)]]
             ELSE run' = [run EXCEPT ![p] =
                            [r0 EXCEPT !.pc = "in_key", !.key = smartKey]]
    /\ UNCHANGED <<store, smartKey, location, adapterUrl, app, win, posted, issued,
                   raceVars, callVars, peerVars>>

\* init, line 737 resumed after get(SMART_KEY): storage.get(key)
initKeyLoaded(p) ==
    /\ run[p].pc = "in_key"
    /\ run' = [run EXCEPT ![p].pc = "in_cached",
                          ![p].stored = StorageGet(run[p].key)]
    /\ UNCHANGED <<store, smartKey, location, adapterUrl, app, win, posted, issued, raceVars, callVars, peerVars>>

\* init, lines 738-745 resumed after storage.get(key): the cached session,
\* or a new launch
initCachedLoaded(p) ==
    /\ run[p].pc = "in_cached"
    /\ IF run[p].stored.present
       THEN /\ run' = [run EXCEPT ![p].pc = "resolved",
                                  ![p].result = Client(run[p].key, run[p].stored)]
            /\ UNCHANGED <<store, smartKey, issued>>
       ELSE authorizeEnter(p, "init", run[p].params)
    /\ UNCHANGED <<location, adapterUrl, app, win, posted, raceVars, callVars, peerVars>>

-----------------------------------------------------------------------------
\* The user agent

\* The user agent loads a page of the application: every operation of the
\* page it leaves ends and its listeners and frames go with it, the adapter
\* of the new page reads the URL anew, the storage stays.
navigate(u) ==
    /\ win # "closed"
    /\ location' = u
    /\ adapterUrl' = u
    /\ run' = [p \in Procs |-> Idle]
    /\ listener' = FALSE
    /\ other' = IF other.win = "frame" THEN NoWindow ELSE other
    /\ UNCHANGED <<store, smartKey, app, win, posted, issued, raceVars, callVars>>

\* The user agent goes on in the other window.  The storage of a frame is
\* the storage of its parent.
switchWindow ==
    /\ other.win \notin {"none", "closed"}
    /\ LET shared == "frame" \in {win, other.win}
       IN  /\ other' = Window(win, location, adapterUrl, run,
                              store, smartKey, listener)
           /\ win' = other.win
           /\ location' = other.location
           /\ adapterUrl' = other.adapterUrl
           /\ run' = other.run
           /\ listener' = other.listener
           /\ store' = IF shared THEN store ELSE other.store
           /\ smartKey' = IF shared THEN smartKey ELSE other.smartKey
    /\ UNCHANGED <<app, posted, issued, raceVars, callVars>>

\* A message event: e.data.type, e.origin, e.data.url
MessageEvent(type, origin, url) ==
    [type |-> type, origin |-> origin, url |-> url]

\* The messages under way to this window: the ones a frame or a popup of
\* the application posted to its parent or opener
Inbox ==
    IF win = "top"
    THEN {MessageEvent("completeAuth", "app", u) : u \in posted}
    ELSE {}

\* Messages of other senders: of another type, or from another origin
Foreign ==
    {MessageEvent("other", "app", Url("app", "xyz", 1, None, None, "1")),
     MessageEvent("completeAuth", "auth", Url("app", "xyz", 1, None, None, "1"))}

\* A listener that does not look at the origin of the message.
AcceptsAnyOrigin(e) == e.type = "completeAuth"

\* line 437: e.data.type == "completeAuth" && e.origin === new
\* URL(self.location.href).origin
AcceptsMessage(e) ==
    /\ e.type = "completeAuth"
    /\ e.origin = location.site

\* onMessage, lines 436-441: a message arrives at the window while the
\* listener is installed.  The assignment to location.href loads the page.
onMessage(e) ==
    /\ listener
    /\ win # "closed"
    /\ e \in Inbox \cup Foreign
    /\ posted' = IF e \in Inbox THEN posted \ {e.url} ELSE posted
    /\ IF AcceptsMessage(e)
       THEN /\ listener' = FALSE
            /\ location' = e.url
            /\ adapterUrl' = e.url
            /\ run' = [p \in Procs |-> Idle]
            /\ other' = IF other.win = "frame" THEN NoWindow ELSE other
       ELSE UNCHANGED <<location, adapterUrl, run, listener, other>>
    /\ UNCHANGED <<store, smartKey, app, win, issued, raceVars, callVars>>

\* A message that arrives while no listener is installed is lost.
messageLost ==
    /\ ~listener
    /\ \E e \in Inbox : posted' = posted \ {e.url}
    /\ UNCHANGED <<store, smartKey, location, adapterUrl, run, app, win, issued,
                   raceVars, callVars, peerVars>>

\* The page is reloaded, also in the middle of an operation.
reload ==
    /\ location.site = "app"
    /\ navigate(location)

\* The user opens a page of the application by hand, in a window whose page
\* is at rest (in the middle of an operation, a reload comes first).
userNavigates ==
    /\ \A p \in Procs : run[p].pc \in Ended
    /\ \E u \in AppUrls : navigate(u)

\* The authorization server sends the user agent back to redirectUri.
authServerRedirects ==
    /\ location.site = "auth"
    /\ \E u \in ServerRedirects(location.state) : navigate(u)

-----------------------------------------------------------------------------
\* The discovery race: any(tasks), over the two tasks getSecurityExtensions
\* starts.  One step is one reaction of a task's promise: onSuccess or
\* onError, which run in the order the promises settle.

NoExtensions == Extensions(Undef, Undef)

\* lines 149-159: the first task asks for the well-known document, the
\* second for the capability statement
TaskResults(t) ==
    IF t = 1
    THEN getSecurityExtensionsFromWellKnownJson(app.server)
    ELSE getSecurityExtensionsFromConformanceStatement(app.server)

\* What task t's promise can reject with: its own failure, and once its
\* signal is aborted the AbortError of the request.
TaskErrors(t) ==
    {TaskError(t)} \cup (IF t \in aborted THEN {"AbortError"} ELSE {})

\* The promise any() returns settles once: resolve and reject on a settled
\* promise change nothing.
Pending == [status |-> "pending", result |-> NoExtensions, message |-> <<>>]

resolve(pr, result) ==
    IF pr.status = "pending"
    THEN [status |-> "resolved", result |-> result, message |-> <<>>]
    ELSE pr

\* line 125: the message joins the errors in the order they were pushed
reject(pr, errs) ==
    IF pr.status = "pending"
    THEN [status |-> "rejected", result |-> NoExtensions, message |-> errs]
    ELSE pr

\* lines 113-117: abort() is called on every task not complete, in the order
\* of the list; an abort() that throws ends the loop and onSuccess
Losers(done) == {t \in Tasks : ~done[t]}

Throwers(done) == Losers(done) \cap abortThrows

Aborted(done) ==
    {t \in Losers(done) : \A u \in Throwers(done) : t <= u}

\* lines 109-120
onSuccess(t) ==
    /\ task[t] = "pending"
    /\ \E result \in TaskResults(t) :
         LET done == [complete EXCEPT ![t] = TRUE]
         IN  /\ task' = [task EXCEPT ![t] = "fulfilled"]
             /\ complete' = done
             /\ IF ~resolved
                THEN /\ resolved' = TRUE
                     /\ aborted' = aborted \cup Aborted(done)
                     /\ IF Throwers(done) = {}
                        THEN /\ promise' = resolve(promise, result)
                             /\ UNCHANGED escaped
                        ELSE /\ escaped' = TRUE
                             /\ UNCHANGED promise
                ELSE UNCHANGED <<resolved, aborted, promise, escaped>>
    /\ UNCHANGED <<errors, abortThrows, flowVars, callVars, peerVars>>

\* A race that gives up at the first failure.
AnyFailed(errs) == TRUE

\* A race that never gives up.
NeverAllFailed(errs) == FALSE

\* line 123: errors.push(error) === len
AllFailed(errs) == Len(errs) = NTasks

\* lines 122-126
onError(t) ==
    /\ task[t] = "pending"
    /\ \E message \in TaskErrors(t) :
         LET errs == Append(errors, message)
         IN  /\ task' = [task EXCEPT ![t] = "rejected"]
             /\ errors' = errs
             /\ promise' = IF AllFailed(errs) THEN reject(promise, errs)
                           ELSE promise
    /\ UNCHANGED <<complete, resolved, aborted, abortThrows, escaped, flowVars, callVars, peerVars>>

\* lines 103-105, 128-130: any() has subscribed to every task
raceStarted ==
    /\ task = [t \in Tasks |-> "pending"]
    /\ complete = [t \in Tasks |-> FALSE]
    /\ errors = <<>>
    /\ resolved = FALSE
    /\ promise = Pending
    /\ aborted = {}
    /\ escaped = FALSE

raceIdle ==
    /\ raceStarted
    /\ abortThrows = {}

flowInit ==
    /\ store = [k \in Keys |-> NullState]
    /\ smartKey = NoKey
    /\ location = Url("app", None, NoKey, None, None, None)
    /\ adapterUrl = location
    /\ run = [p \in Procs |-> Idle]
    /\ posted = {}
    /\ issued = 0
    /\ listener = FALSE
    /\ other = NoWindow

\* No call of buildTokenRequest on its own.
NoRequest == Thrown(<<"not called">>)

requestIdle ==
    /\ givenCode = ""
    /\ givenState = NullState
    /\ built = NoRequest

\* No callbacks.
NoHandlers == [onSuccess |-> "absent", onError |-> "absent"]

readyIdle ==
    /\ settled = NoResult
    /\ handlers = NoHandlers
    /\ returned = NoResult

callIdle ==
    /\ requestIdle
    /\ readyIdle

Init ==
    /\ flowInit
    /\ \E f \in Fixtures : win = f.win /\ app = f.params
    /\ raceIdle
    /\ callIdle

\* One operation at a time: the page runs its operations one after another.
Main == CHOOSE p \in Procs : \A q \in Procs : p <= q

Next ==
    \/ authorize(Main)
    \/ authorizeAliased(Main)
    \/ authorizeDiscovered(Main)
    \/ authorizeDiscoveryFailed(Main)
    \/ authorizeRedirect(Main)
    \/ completeAuth(Main)
    \/ completeAuthLoaded(Main)
    \/ getAccessToken(Main)
    \/ tokenAnswered(Main)
    \/ tokenFailed(Main)
    \/ completeAuthSaved(Main)
    \/ cleanUpUrlLoaded(Main)
    \/ cleanUpUrlAliased(Main)
    \/ getClient(Main)
    \/ ready(Main)
    \/ readyLoaded(Main)
    \/ init(Main)
    \/ initKeyLoaded(Main)
    \/ initCachedLoaded(Main)
    \/ reload
    \/ userNavigates
    \/ authServerRedirects

Spec == Init /\ [][Next]_vars

\* Two operations of one page at a time: the application calls an operation
\* while another one is suspended at an await, and their steps interleave
\* in every order.  The applications launch by iss against a SMART server,
\* in single and in multi-launch mode, with and without noRedirect.
PairFixtures ==
    {f \in Fixtures :
        /\ f.win = "top"
        /\ f.params.mode = "iss"
        /\ f.params.server = "smart"
        /\ f.params.clientId = "my_client"
        /\ f.params.patientId = Undef}

InitPair ==
    /\ flowInit
    /\ \E f \in PairFixtures : win = f.win /\ app = f.params
    /\ raceIdle
    /\ callIdle

NextPair ==
    \/ \E p \in Procs :
         \/ authorize(p)
         \/ authorizeAliased(p)
         \/ authorizeDiscovered(p)
         \/ authorizeDiscoveryFailed(p)
         \/ authorizeRedirect(p)
         \/ completeAuth(p)
         \/ completeAuthLoaded(p)
         \/ getAccessToken(p)
         \/ tokenAnswered(p)
         \/ tokenFailed(p)
         \/ completeAuthSaved(p)
         \/ cleanUpUrlLoaded(p)
         \/ cleanUpUrlAliased(p)
         \/ getClient(p)
         \/ ready(p)
         \/ readyLoaded(p)
         \/ init(p)
         \/ initKeyLoaded(p)
         \/ initCachedLoaded(p)
    \/ reload
    \/ userNavigates
    \/ authServerRedirects

SpecPair == InitPair /\ [][NextPair]_vars

\* Two windows: an application of the top window without a target, and
\* applications that give authorize a popup or a frame as its target, on
\* each of its ways out: the authorization URL, noRedirect, the open server
\* and the fhirServiceUrl bypass.
WindowFixtures ==
    {Fixture("top", Params("iss", "smart", FALSE, "my_client", Undef, FALSE)),
     Fixture("top", WithTarget(
         Params("iss", "smart", FALSE, "my_client", Undef, FALSE), "popup")),
     Fixture("top", WithTarget(
         Params("iss", "smart", FALSE, "my_client", "false", FALSE), "frame")),
     Fixture("top", WithTarget(
         Params("iss", "smart", FALSE, "my_client", Undef, TRUE), "popup")),
     Fixture("top", WithTarget(
         Params("iss", "open", FALSE, "my_client", Undef, FALSE), "frame")),
     Fixture("top", WithTarget(
         Params("fhirServiceUrl", "open", FALSE, "my_client", Undef, FALSE), "popup"))}

InitWindows ==
    /\ flowInit
    /\ \E f \in WindowFixtures : win = f.win /\ app = f.params
    /\ raceIdle
    /\ callIdle

NextWindows ==
    \/ authorize(Main)
    \/ authorizeAliased(Main)
    \/ authorizeDiscovered(Main)
    \/ authorizeDiscoveryFailed(Main)
    \/ authorizeRedirect(Main)
    \/ authorizeTarget(Main)
    \/ completeAuth(Main)
    \/ completeAuthLoaded(Main)
    \/ getAccessToken(Main)
    \/ tokenAnswered(Main)
    \/ tokenFailed(Main)
    \/ completeAuthSaved(Main)
    \/ cleanUpUrlLoaded(Main)
    \/ cleanUpUrlAliased(Main)
    \/ getClient(Main)
    \/ ready(Main)
    \/ readyLoaded(Main)
    \/ init(Main)
    \/ initKeyLoaded(Main)
    \/ initCachedLoaded(Main)
    \/ switchWindow
    \/ \E e \in Inbox \cup Foreign : onMessage(e)
    \/ messageLost
    \/ authServerRedirects

SpecWindows == InitWindows /\ [][NextWindows]_vars

\* The discovery race on its own: the race of a launch by iss, with
\* controllers whose abort() works and controllers whose abort() throws.
InitRace ==
    /\ flowInit
    /\ \E f \in Fixtures :
         /\ f.params.mode = "iss"
         /\ win = f.win
         /\ app = f.params
    /\ raceStarted
    /\ abortThrows \in SUBSET Tasks
    /\ callIdle

NextRace ==
    \/ \E t \in Tasks : onSuccess(t)
    \/ \E t \in Tasks : onError(t)

SpecRace == InitRace /\ [][NextRace]_vars

\* The race whose tasks all settle: the request of every task ends, with a
\* response or with a failure.
SpecRaceFair ==
    /\ InitRace
    /\ [][NextRace]_vars
    /\ \A t \in Tasks : WF_vars(onSuccess(t) \/ onError(t))

\* buildTokenRequest on its own: called once with a code and a state, among
\* them codes and client ids with reserved characters, states with and
\* without a secret, and states that lack a field it asserts.
Codes == {"xyz", "abc=", "abc&client_id=evil"}

RequestStates ==
    {[NullState EXCEPT !.present = TRUE, !.clientId = c, !.clientSecret = x,
                       !.redirectUri = r, !.tokenUri = t] :
        c \in {Undef, "my_client", "my&client"},
        x \in {Undef, "", "s3cret", "p:w"},
        r \in {Undef, "https://app/", "https://app/?a=1&b=2"},
        t \in {Undef, "https://ehr/token"}}

InitRequest ==
    /\ flowInit
    /\ win = "top"
    /\ app = NoParams
    /\ raceIdle
    /\ givenCode \in Codes
    /\ givenState \in RequestStates
    /\ built = NoRequest
    /\ readyIdle

buildRequest ==
    /\ built = NoRequest
    /\ built' = buildTokenRequest(givenCode, givenState)
    /\ UNCHANGED <<givenCode, givenState, settled, handlers, returned,
                   flowVars, raceVars, peerVars>>

SpecRequest == InitRequest /\ [][buildRequest]_vars

\* The end of ready on its own: the task has settled the way getClient and
\* completeAuth settle, and the callbacks are chained onto it.

\* The sessions and the errors a task of ready settles with.
Outcomes ==
    {Client(k, [InitialState(NoParams) EXCEPT !.tokenResponse = resp]) :
        k \in Keys, resp \in TokenResponses}
    \cup {Failure(<<"No state found in storage.">>),
          Failure(<<"Failed to obtain access token.">>),
          Failure(<<"access_denied", "User declined">>)}

\* What a callback does: it is not passed, or it returns nothing, or it
\* returns what it was given, or it throws; onError may also throw the
\* error it was given.
OnSuccess == {"absent", "returnsNothing", "returnsArgument", "throws"}
OnError == {"absent", "returnsNothing", "rethrows", "throws"}

Fulfilled(outcome) == outcome.kind # "error"

\* lines 680-682: task.then(onSuccess)
Then(outcome, callback) ==
    IF callback = "absent" \/ ~Fulfilled(outcome) THEN outcome
    ELSE CASE callback = "returnsNothing" -> Void
           [] callback = "returnsArgument" -> outcome
           [] callback = "throws" -> Failure(<<"onSuccess threw">>)

\* lines 684-686: task.catch(onError)
Catch(outcome, callback) ==
    IF callback = "absent" \/ Fulfilled(outcome) THEN outcome
    ELSE CASE callback = "returnsNothing" -> Void
           [] callback = "rethrows" -> outcome
           [] callback = "throws" -> Failure(<<"onError threw">>)

InitReady ==
    /\ flowInit
    /\ win = "top"
    /\ app = NoParams
    /\ raceIdle
    /\ requestIdle
    /\ settled \in Outcomes
    /\ handlers \in [onSuccess : OnSuccess, onError : OnError]
    /\ returned = NoResult

\* lines 680-688: the callbacks are chained and the promise returned
readyReturns ==
    /\ returned = NoResult
    /\ returned' = Catch(Then(settled, handlers.onSuccess), handlers.onError)
    /\ UNCHANGED <<settled, handlers, givenCode, givenState, built,
                   flowVars, raceVars, peerVars>>

SpecReady == InitReady /\ [][readyReturns]_vars

-----------------------------------------------------------------------------
\* Properties of the flow

\* An operation that is inside completeAuth, called directly or by ready or
\* init.
InCompleteAuth(r) == r.body = "completeAuth"

\* The URL carries neither code nor state.
Bare(url) == url.code = None /\ url.state = NoKey

\* C1: once the state stored under a key holds an access token, the entry
\* never changes again, and no run of completeAuth issues a token request
\* for that key: whoever is sending a token request finds no access token
\* stored under its key.
NoExchangeOnceAuthorized ==
    [][/\ \A k \in Keys : HasAccessToken(store[k]) => store'[k] = store[k]
       /\ \A p \in Procs :
            run'[p].pc = "ca_request"
                => ~HasAccessToken(store'[run'[p].key])]_vars

\* C1, its case: completeAuth ran on a URL with a code for a key whose stored
\* state already held an access token, and resolved without an exchange.
ReloadedWithCodeWhenAuthorized ==
    \E p \in Procs :
        /\ InCompleteAuth(run[p])
        /\ run[p].pc = "resolved"
        /\ Truthy(run[p].code)
        /\ run[p].tokenResponse = NoTokenResponse
        /\ HasAccessToken(run[p].result.state)

ExchangeEndsInSession ==
    \A p \in Procs :
        LET r == run[p]
        IN  (/\ InCompleteAuth(r)
             /\ Truthy(r.tokenResponse.access_token)
             /\ ~r.state.multiple)
            => /\ r.pc # "rejected"
               /\ r.state.tokenResponse = r.tokenResponse
               /\ store[r.key] = r.state
               /\ r.pc = "resolved"
                    => /\ r.result = Client(r.key, r.state)
                       /\ Bare(location)
                       /\ Bare(adapterUrl)

\* C3, its case: completeAuth exchanged the code of a single launch and
\* resolved with a session that holds the access token.
ExchangedAndResolved ==
    \E p \in Procs :
        /\ InCompleteAuth(run[p])
        /\ run[p].pc = "resolved"
        /\ Truthy(run[p].code)
        /\ ~run[p].state.multiple
        /\ run[p].tokenResponse.access_token = "tok123"
        /\ run[p].result.state.tokenResponse.access_token = "tok123"

ErrorAndDescription(url) ==
    IF url.error \in {None, Undef, ""} THEN <<url.error_description>>
    ELSE IF url.error_description \in {None, Undef, ""} THEN <<url.error>>
    ELSE <<url.error, url.error_description>>

\* C5: a completeAuth that starts on a URL with an error or an
\* error_description rejects in its first step with the two combined, and
\* that step changes neither the storage, the URL, the window nor the
\* messages posted, whatever else the URL carries and the storage holds.
AuthErrorRejectsFirst ==
    [][\A p \in Procs :
         (/\ run[p].pc \in Ended
          /\ run'[p] # run[p]
          /\ InCompleteAuth(run'[p])
          /\ \/ adapterUrl.error \notin {None, Undef, ""}
             \/ adapterUrl.error_description \notin {None, Undef, ""})
         => /\ run'[p].pc = "rejected"
            /\ run'[p].result = Failure(ErrorAndDescription(adapterUrl))
            /\ UNCHANGED <<store, smartKey, location, adapterUrl, win, posted,
                           issued>>]_vars

\* C5, its case: completeAuth rejected with the error and its description on
\* a URL whose state parameter names a stored state.
RejectedWithAuthError ==
    \E p \in Procs :
        /\ InCompleteAuth(run[p])
        /\ run[p].pc = "rejected"
        /\ run[p].result.msg = <<"access_denied", "User declined">>
        /\ StorageGet(adapterUrl.state).present

\* C9: when a completeAuth of a single launch has resolved for a key, the
\* singular key holds that key, the state is stored under it and the URL
\* carries neither code nor state; and a ready on a URL with neither code
\* nor state resolves with the session stored under the key the singular key
\* holds, and fails only if nothing is stored there.
SingularKeyRevives ==
    \A p \in Procs :
        LET r == run[p]
        IN  /\ (InCompleteAuth(r) /\ r.pc = "resolved" /\ ~r.result.state.multiple)
                  => /\ smartKey = r.key
                     /\ StorageGet(r.key) = r.result.state
                     /\ r.result.state.present
                     /\ Bare(location)
                     /\ Bare(adapterUrl)
            /\ (r.body = "ready" /\ r.pc = "resolved" /\ Bare(adapterUrl))
                  => /\ r.result = Client(smartKey, StorageGet(smartKey))
                     /\ StorageGet(smartKey).present
            /\ (r.body = "ready" /\ r.pc = "rejected" /\ Bare(adapterUrl))
                  => ~StorageGet(smartKey).present

\* C9, its case: ready, on a URL with neither code nor state, resolved with
\* the authorized session of a single launch found through the singular key.
RevivedThroughSingularKey ==
    \E p \in Procs :
        /\ run[p].body = "ready"
        /\ run[p].pc = "resolved"
        /\ Bare(adapterUrl)
        /\ run[p].result.key = smartKey
        /\ ~run[p].result.state.multiple
        /\ HasAccessToken(run[p].result.state)

\* C10: in an application whose launches all have multiple set, the singular
\* key is never written: it stays unset whatever authorize, completeAuth,
\* ready and init do.
MultipleNeverWritesSingularKey ==
    app.multiple => smartKey = NoKey

\* C10, its case: a multiple launch went all the way, from authorize to a
\* completeAuth that exchanged the code and resolved.
MultipleLaunchCompleted ==
    \E p \in Procs :
        /\ app.multiple
        /\ InCompleteAuth(run[p])
        /\ run[p].pc = "resolved"
        /\ run[p].state.multiple
        /\ HasAccessToken(run[p].result.state)

-----------------------------------------------------------------------------
\* Properties of the flow: windows, redirects, failures

\* C12: when completeAuth has read a stored state that does not ask for
\* completion in the same window, in a frame or a popup, on a URL without the
\* complete parameter, its next step posts the URL with complete=1, closes
\* the window if it is a popup, leaves the promise pending, and changes
\* neither the storage nor the location; no step resumes a pending operation.
HandsOverAndStaysPending ==
    [][\A p \in Procs :
         (/\ run[p].pc = "ca_get"
          /\ run'[p].pc # "idle"
          /\ win \in {"frame", "popup"}
          /\ run[p].state.present
          /\ run[p].state.completeInTarget # "true"
          /\ adapterUrl.complete \in {None, Undef, ""})
         => /\ run'[p].pc = "pending"
            /\ run'[p].tokenResponse = NoTokenResponse
            /\ posted' = posted \cup {[adapterUrl EXCEPT !.complete = "1"]}
            /\ win' = IF win = "popup" THEN "closed" ELSE win
            /\ UNCHANGED <<store, smartKey, location, issued>>]_vars

\* C12, its case: in a popup, completeAuth posted the URL of the redirect
\* with complete=1, closed the window and is pending.
PopupHandedOver ==
    \E p \in Procs :
        /\ InCompleteAuth(run[p])
        /\ run[p].pc = "pending"
        /\ win = "closed"
        /\ [location EXCEPT !.complete = "1"] \in posted
        /\ Truthy(location.code)

ComputedUrl(r) ==
    IF r.params.mode = "iss" /\ r.state.authorizeUri \notin {None, Undef, ""}
    THEN AuthorizeUrl(r.key)
    ELSE RedirectUrl(r.key)

\* C14: authorize asks for discovery only when iss is in effect; when it
\* ends, the state is stored under the new key, and the URL it navigates to
\* or returns is the authorization URL only when iss is in effect and
\* authorizeUri is not empty, and redirectUri?state=K otherwise.
AuthorizationUrlOnlyWithEndpoint ==
    [][\A p \in Procs :
         /\ run'[p].pc = "az_discovery" => run'[p].params.mode = "iss"
         /\ (run[p].pc = "az_stored" /\ run'[p].pc \in {"resolved", "pending"})
              => LET r == run[p]
                 IN  /\ r.state.present
                     /\ store[r.key] = r.state
                     /\ store' = store
                     /\ IF r.params.noRedirect
                        THEN /\ location' = location
                             /\ r.fn = "authorize"
                                  => run'[p].result = Returned(ComputedUrl(r))
                        ELSE location' = ComputedUrl(r)]_vars

\* C14, its case: authorize by iss found an open server (an empty
\* authorizeUri), stored the state and went to redirectUri?state=K.
OpenServerShortCircuit ==
    \E p \in Procs :
        /\ run[p].body = "authorize"
        /\ run[p].pc = "resolved"
        /\ run[p].params.mode = "iss"
        /\ run[p].state.authorizeUri = ""
        /\ store[run[p].key] = run[p].state
        /\ location = RedirectUrl(run[p].key)

InitPendingAfterAuthorize ==
    \A p \in Procs :
        LET r == run[p]
        IN  (r.fn = "init" /\ r.body = "authorize")
            => /\ r.pc # "resolved"
               /\ r.result.kind \in {"none", "error"}
               /\ r.pc = "pending" => store[r.key] = r.state /\ r.state.present
               /\ r.pc = "rejected"
                    => r.result \in
                         {Failure(<<"No server url found">>)}
                         \cup {Failure(<<TaskError(t), TaskError(NTasks + 1 - t)>>) :
                                 t \in Tasks}

\* C17, its case: init found no session, authorize stored the state and
\* sent the page to the authorization server, and init is pending.
InitLeftPending ==
    \E p \in Procs :
        /\ run[p].fn = "init"
        /\ run[p].body = "authorize"
        /\ run[p].pc = "pending"
        /\ location = AuthorizeUrl(run[p].key)

\* C18: a token request is followed by the storing of the state only if the
\* response has an access token; when completeAuth rejects instead (no
\* access token, a failed request), the step changes neither the storage nor
\* the location: the state under the key is as it was read, without a token,
\* and the URL completeAuth works on still carries the code and the state
\* key.
FailedExchangeCommitsNothing ==
    [][\A p \in Procs :
         run[p].pc = "ca_request"
         => /\ run'[p].pc = "ca_save"
                 => run'[p].tokenResponse.access_token \notin {None, Undef, ""}
            /\ run'[p].pc = "rejected"
                 => /\ UNCHANGED <<store, smartKey, location>>
                    /\ store[run[p].key] = run[p].stored
                    /\ ~HasAccessToken(store[run[p].key])
                    /\ adapterUrl'.code = run[p].code
                    /\ adapterUrl'.code \notin {None, Undef, ""}
                    /\ adapterUrl'.state = run[p].key]_vars

\* C18, its case: the token endpoint answered without an access token and
\* completeAuth rejected on a URL that still carries code and state.
RejectedWithoutAccessToken ==
    \E p \in Procs :
        /\ InCompleteAuth(run[p])
        /\ run[p].pc = "rejected"
        /\ run[p].result = Failure(<<"Failed to obtain access token.">>)
        /\ Truthy(location.code)
        /\ location.state = run[p].key
        /\ ~HasAccessToken(store[run[p].key])

-----------------------------------------------------------------------------
\* Properties of the token request

\* The body as the token endpoint reads it (application/x-www-form-
\* urlencoded): parameters are separated by "&", a name ends at "=", and
\* escapes are undone.
Unescaped(c) ==
    CASE c = "%26" -> "&"
      [] c = "%3D" -> "="
      [] c = "%3A" -> ":"
      [] c = "%2F" -> "/"
      [] c = "%3F" -> "?"
      [] OTHER -> c

NameAt(body) == {i \in DOMAIN body : i = 1 \/ body[i - 1] = "&"}

ParamNames(body) == {body[i] : i \in NameAt(body)}

ParamValue(body, i) ==
    LET stops == {j \in (i + 2)..Len(body) : body[j] = "&"}
        last  == IF stops = {} THEN Len(body)
                 ELSE (CHOOSE j \in stops : \A k \in stops : j <= k) - 1
    IN  [k \in 1..(last - i - 1) |-> Unescaped(body[i + 1 + k])]

HasParam(body, name, value) ==
    \E i \in NameAt(body) :
        /\ body[i] = name
        /\ i + 1 \in DOMAIN body
        /\ body[i + 1] = "="
        /\ ParamValue(body, i) = value

\* atob(encoded): the text btoa encoded
atob(encoded) == encoded.text

\* C19: a request buildTokenRequest returns authenticates the client in one
\* way: with a clientSecret, a Basic authorization header that decodes to
\* clientId:clientSecret and a body without a client_id parameter; without
\* one, no authorization header and a body with client_id = clientId.
OneWayToAuthenticate ==
    built.ok =>
        IF Truthy(givenState.clientSecret)
        THEN /\ built.authorization.present
             /\ built.authorization.scheme = "Basic"
             /\ built.authorization.credentials.encoding = "base64"
             /\ atob(built.authorization.credentials)
                  = Chars(givenState.clientId) \o <<":">>
                      \o Chars(givenState.clientSecret)
             /\ "client_id" \notin ParamNames(built.body)
        ELSE /\ ~built.authorization.present
             /\ HasParam(built.body, "client_id", Chars(givenState.clientId))

-----------------------------------------------------------------------------
\* Properties of the callbacks of ready

\* C16: the promise ready returns settles the way its task settled, whatever
\* callbacks were passed: with the same session, or with the same error.
CallbacksKeepOutcome ==
    returned # NoResult => returned = settled

-----------------------------------------------------------------------------
\* Properties of two operations at a time

\* An operation that is suspended at an await.
InFlight(r) == r.pc \notin Ended

-----------------------------------------------------------------------------
\* Properties of authorize after discovery

\* C23, as the specification states it: when the well-known document of the
\* server advertises an authorization endpoint, an authorize by iss that has
\* finished discovery holds a non-empty authorizeUri, and it ends at the
\* authorization URL, never at redirectUri?state=K.
WellKnownEndpointDecides ==
    \A p \in Procs :
        LET r == run[p]
        IN  (/\ r.body = "authorize"
             /\ r.params.mode = "iss"
             /\ getSecurityExtensionsFromWellKnownJson(r.params.server) # {}
             /\ r.pc \in {"az_stored", "resolved", "pending"})
            => /\ Truthy(r.state.authorizeUri)
               /\ redirectUrl(r) = AuthorizeUrl(r.key)

\* C24, as the specification states it: after an authorize that rejected,
\* the singular key is unset or holds a key under which a state is stored.
FailedAuthorizeKeepsSession ==
    \A p \in Procs :
        (run[p].body = "authorize" /\ run[p].pc = "rejected")
        => \/ smartKey = NoKey
           \/ store[smartKey].present

-----------------------------------------------------------------------------
\* Properties of the token exchange

\* C26, as the specification states it: two operations of a page never have
\* a token request under way for the same state key and the same code.
OneExchangePerCode ==
    \A p, q \in Procs :
        (/\ p # q
         /\ run[p].pc = "ca_request"
         /\ run[q].pc = "ca_request"
         /\ run[p].key = run[q].key)
        => run[p].code # run[q].code

\* An operation that holds the answer of the token endpoint.
HoldsTokenResponse(r) ==
    /\ InCompleteAuth(r)
    /\ r.pc \in {"ca_save", "cu_get", "cu_set", "gc_get", "resolved"}
    /\ r.tokenResponse.access_token \notin {None, Undef, ""}

\* C27: an operation that holds the token response has it stored under its
\* key; a step of completeAuth takes the code out of the location only when
\* the state under its key holds an access token or needs no exchange; and
\* a token request is sent only for a key whose stored state holds no
\* access token - so a reload at any point after the exchange, on the URL
\* that still has the code, sends no second request.
CodeRemovedAfterTokenStored ==
    [][\A p \in Procs :
         /\ HoldsTokenResponse(run'[p])
              => /\ HasAccessToken(store'[run'[p].key])
                 /\ store'[run'[p].key].tokenResponse = run'[p].tokenResponse
         /\ (/\ InCompleteAuth(run[p])
             /\ run'[p].pc # "idle"
             /\ location.code \notin {None, Undef, ""}
             /\ location'.code = None)
              => \/ HasAccessToken(store[run[p].key])
                 \/ ~NeedsExchange(run[p].code, store[run[p].key])
         /\ (run[p].pc # "ca_request" /\ run'[p].pc = "ca_request")
              => ~HasAccessToken(store[run'[p].key])]_vars

\* C27, its case: the page was reloaded after the token was stored and
\* before the code was taken out of the location, and the completeAuth of
\* the reloaded page has gone on to clean the URL without a token request.
ReloadedBeforeCleanup ==
    \E p \in Procs :
        /\ InCompleteAuth(run[p])
        /\ run[p].pc \in {"cu_get", "cu_set"}
        /\ run[p].tokenResponse = NoTokenResponse
        /\ location.code \notin {None, Undef, ""}
        /\ HasAccessToken(store[run[p].key])

\* C28: a step changes a stored state only by the token exchange, and the
\* exchange changes only its tokenResponse and expiresAt: the stored
\* tokenResponse is the answer of the token endpoint itself, with nothing of
\* what authorize had put there, and every other field is as authorize
\* stored it.
ExchangeChangesTokenOnly ==
    [][\A k \in Keys :
         (store[k] # NullState /\ store'[k] # store[k])
           => \E p \in Procs : \E response \in TokenResponses :
                /\ run[p].pc = "ca_request"
                /\ run'[p].pc = "ca_save"
                /\ run[p].key = k
                /\ response.access_token \notin {None, Undef, ""}
                /\ run'[p].tokenResponse = response
                /\ store'[k] = [store[k] EXCEPT
                                   !.tokenResponse = response,
                                   !.expiresAt = getAccessTokenExpiration(response)]
                /\ \A j \in Keys \ {k} : store'[j] = store[j]]_vars

\* C28, its case: authorize was given a patient id, the exchange has
\* succeeded with a response that names no patient, and the stored state
\* has the access token and no patient.
FixedPatientDropped ==
    \E p \in Procs :
        /\ InCompleteAuth(run[p])
        /\ run[p].pc = "ca_save"
        /\ app.patientId = "pt1"
        /\ app.fakeTokenResponse.patient = "pt0"
        /\ run[p].tokenResponse = [access_token |-> "tok123", patient |-> None]
        /\ store[run[p].key].tokenResponse = run[p].tokenResponse
        /\ store[run[p].key].expiresAt = getAccessTokenExpiration(run[p].tokenResponse)
        /\ store[run[p].key].clientId = app.clientId

-----------------------------------------------------------------------------
\* Properties of init

\* A LaunchState is stored under the state parameter of the URL or under
\* the key the singular key holds.
Recoverable ==
    \/ StorageGet(adapterUrl.state).present
    \/ StorageGet(smartKey).present

\* C32, as the specification states it: when init, on a URL without a
\* code, has read the storage while a state is stored under the state
\* parameter or under the key of the singular key, its next step returns a
\* session, and issues no state key, writes nothing and navigates nowhere.
InitRevivesRecoverable ==
    [][\A p \in Procs :
         (/\ run[p].fn = "init"
          /\ run[p].pc = "in_cached"
          /\ run'[p].fn = "init"
          /\ run'[p].pc # "in_cached"
          /\ run[p].code \in {None, Undef, ""}
          /\ Recoverable)
           => /\ run'[p].pc = "resolved"
              /\ run'[p].result.kind = "session"
              /\ run'[p].result.state.present
              /\ UNCHANGED <<store, smartKey, location, issued>>]_vars

-----------------------------------------------------------------------------
\* Properties of the windows

\* C25: in the step in which authorize ends - it sends this window or the
\* target window to a URL, or returns the URL - the storage of the window
\* it runs in already holds its state under its state key, and the URL it
\* navigates to or returns carries that key as its state parameter.
StateStoredBeforeLeaving ==
    [][\A p \in Procs :
         (/\ win' = win
          /\ run[p].pc = "az_stored"
          /\ run'[p].pc \in {"resolved", "pending"})
           => LET k == run[p].key
              IN  /\ k \in Keys
                  /\ store[k].present
                  /\ store[k] = run[p].state
                  /\ store'[k] = store[k]
                  /\ location' # location => location'.state = k
                  /\ other'.location \notin {other.location, BlankUrl}
                        => other'.location.state = k
                  /\ run'[p].result.kind = "url"
                        => run'[p].result.url.state = k]_vars

\* C25, its case: authorize has sent the popup to the authorization URL and
\* the state of that launch is in the storage of the top window.
TargetSentWithStoredState ==
    /\ win = "top"
    /\ listener
    /\ other.win = "popup"
    /\ other.location.site = "auth"
    /\ other.location.state \in Keys
    /\ store[other.location.state].present
    /\ \E p \in Procs :
          /\ run[p].pc = "resolved"
          /\ run[p].body = "authorize"
          /\ run[p].key = other.location.state

\* C30: a message that arrives at the installed listener changes the
\* location only when its type is completeAuth and its origin is the origin
\* of the page; then the listener is removed in the same step and the
\* window goes to the URL of the message.  Any other message leaves the
\* location as it is and the listener installed.  So a listener navigates at
\* most once.
ListenerNavigatesOnce ==
    [][\A e \in Inbox \cup Foreign :
         onMessage(e) =>
            /\ listener
            /\ IF e.type = "completeAuth" /\ e.origin = location.site
               THEN ~listener' /\ location' = e.url
               ELSE listener' /\ location' = location]_vars

\* C30, its case: the top window has taken the message of its target and
\* is on the URL the message carried, without the listener.
ListenerNavigated ==
    /\ win = "top"
    /\ ~listener
    /\ location.site = "app"
    /\ location.code = "xyz"
    /\ location.complete = "1"
    /\ posted = {}

\* C31: in the step that ends an authorize with a target, the target window
\* is sent somewhere only if it is sent to the authorization URL of this
\* launch with the state of the launch in its own storage under the state
\* key, and then the listener is installed and this window stays where it
\* is; and when the storage of the target does not hold that state after
\* the step, the target is as it was, the listener is as it was, and this
\* window has gone to the authorization URL.
TargetWrittenBeforeSent ==
    [][\A p \in Procs :
         (/\ win' = win
          /\ run[p].pc = "az_stored"
          /\ run'[p].pc \in {"resolved", "pending"}
          /\ ~run[p].params.noRedirect
          /\ run[p].params.target # None
          /\ run[p].state.authorizeUri \notin {None, Undef, ""}
          /\ run[p].params.mode = "iss")
           => LET k == run[p].key
              IN  /\ other'.location \notin {other.location, BlankUrl}
                        => /\ other'.location = AuthorizeUrl(k)
                           /\ other'.win = run[p].params.target
                           /\ other'.store[k] = run[p].state
                           /\ listener'
                           /\ location' = location
                  /\ other'.store[k] # run[p].state
                        => /\ other' = other
                           /\ listener' = listener
                           /\ location' = AuthorizeUrl(k)
                  /\ location' # location
                        => /\ location' = AuthorizeUrl(k)
                           /\ listener' = listener
                           /\ other'.location \in {other.location, BlankUrl}]_vars

\* C31, its case: a second launch has sent the popup of the first one to
\* its authorization URL, and the storage of the popup holds the state of
\* the second launch under its key.
ReusedPopupHoldsState ==
    /\ win = "top"
    /\ listener
    /\ other.win = "popup"
    /\ other.location = AuthorizeUrl(2)
    /\ other.store[1].present
    /\ other.store[2].present
    /\ other.store[2] = store[2]
    /\ location.site = "app"

\* The other case of C31: the top window has gone to the authorization URL
\* itself, with no target window and no listener.
FellBackToSelf ==
    /\ win = "top"
    /\ app.target = "popup"
    /\ location.site = "auth"
    /\ ~listener
    /\ other = NoWindow

\* C29, as the specification states it: the target window never performs a
\* token exchange - no operation of a frame or a popup that authorize of the
\* top window has sent to the authorization server has a token request
\* under way.
TargetNeverExchanges ==
    \A p \in Procs :
        ~(/\ win \in {"frame", "popup"}
          /\ run[p].pc = "ca_request")

-----------------------------------------------------------------------------
\* Properties of the discovery race

\* C6, as the specification states it: when exactly one task has succeeded,
\* the race is resolved with that task's result and abort has been called on
\* the other task's controller.
OneSuccessWins ==
    \A t \in Tasks :
        (task[t] = "fulfilled" /\ \A u \in Tasks \ {t} : task[u] # "fulfilled")
            => /\ promise.status = "resolved"
               /\ promise.result \in TaskResults(t)
               /\ (Tasks \ {t}) \subseteq aborted

\* C7, as the specification states it: the race rejects with the failure
\* messages in the order of the tasks in the list.
AggregateInTaskOrder ==
    promise.status = "rejected"
        => promise.message = [t \in Tasks |-> TaskError(t)]

\* C8, as the specification states it: no exception leaves the coordinator,
\* and once a task has succeeded the race is resolved.
AbortFailureIgnored ==
    /\ ~escaped
    /\ (\E t \in Tasks : task[t] = "fulfilled") => promise.status = "resolved"

\* C21: the promise of the race settles once and one way.  A settled promise
\* never changes; a success after another task's success changes neither the
\* promise nor the aborted controllers; the first success resolves the
\* promise with the result of its task or (when abort throws) leaves it as
\* it is; and a rejected promise means that no task has succeeded.
SettlesOnceOneWay ==
    [][/\ promise.status # "pending" => promise' = promise
       /\ promise'.status = "rejected"
            => \A t \in Tasks : task'[t] # "fulfilled"
       /\ \A t \in Tasks :
            (task[t] = "pending" /\ task'[t] = "fulfilled")
            => IF \E u \in Tasks : task[u] = "fulfilled"
               THEN promise' = promise /\ aborted' = aborted
               ELSE \/ promise' = promise
                    \/ /\ promise'.status = "resolved"
                       /\ promise'.result \in TaskResults(t)]_vars

\* C21, its case: both tasks succeeded with different results and the race
\* holds the result of one of them.
LaterSuccessIgnored ==
    /\ \A t \in Tasks : task[t] = "fulfilled"
    /\ TaskResults(1) \cap TaskResults(2) = {}
    /\ promise.status = "resolved"
    /\ promise.result \in TaskResults(2)
    /\ aborted = {1}

AllSettled == \A t \in Tasks : task[t] # "pending"

\* C22: when abort does not throw and every task settles, the race settles:
\* it is never pending once all of its tasks have settled, and it eventually
\* resolves or rejects.
RaceTerminates ==
    abortThrows = {}
        => /\ [](AllSettled => promise.status # "pending")
           /\ <>(promise.status # "pending")

\* C22, its case: abort does not throw, every task has failed and the race
\* is rejected.
RaceSettledAfterTasks ==
    /\ abortThrows = {}
    /\ \A t \in Tasks : task[t] = "rejected"
    /\ promise.status = "rejected"

====
